---- MODULE Spec2Model ----
(***************************************************************************)
(* A model of deduce.py: the recursive-descent formula parser              *)
(* (LogicParser, tree_from_str), the relevance heuristic (atom_counts,     *)
(* count_overlap) and the prover entry (Prover.can_prove), as driven by    *)
(* the main loop.                                                          *)
(*                                                                         *)
(* Python values are modelled as follows.                                  *)
(*   - a str is a sequence of one-character strings;                       *)
(*   - a Tree is a record [tag, kids]; None is the record None below;      *)
(*   - a float is an exact fraction <<numerator, denominator>>: every      *)
(*     weight of atom_counts is a dyadic rational with a few bits, so the  *)
(*     products and sums are exact in binary floating point, and the one   *)
(*     division (by the number of keys) is correctly rounded, so two       *)
(*     scores are equal floats exactly when they are equal fractions;      *)
(*   - a raised exception is a result value naming the exception.          *)
(***************************************************************************)
EXTENDS Integers, Sequences, FiniteSets, TLC

VARIABLES pc, text, parsed, goalText, hypoTexts, energy, tree, givens, idxs,
          out, result, en

vars == <<pc, text, parsed, goalText, hypoTexts, energy, tree, givens, idxs,
          out, result, en>>

(***************************************************************************)
(* Bounds of the model.                                                    *)
(***************************************************************************)
MaxLen == 3
MaxHyps == 2
MaxEnergy == 3

(***************************************************************************)
(* 1.0 Syntax tree                                                         *)
(***************************************************************************)
None == [tag |-> "None", kids |-> <<>>]

Tree(tag, kids) == [tag |-> tag, kids |-> kids]

\* The methods class Tree defines.
TreeMethods == {"__init__", "nb_kids", "matches", "as_str", "display_multiline"}

Letters == {"a", "b", "c", "d", "e", "F"}

\* str.isalpha on the one-character strings of the model's alphabet.
isalpha(c) == c \in Letters

AtomTag(c) == ":" \o c

is_atom(t) == t.tag \in {AtomTag(c) : c \in Letters}

nb_kids(t) == Len(t.kids)

RECURSIVE matches(_, _)
matches(t, pattern) ==
    IF t.tag # pattern.tag THEN FALSE
    ELSE IF nb_kids(t) # nb_kids(pattern) THEN FALSE
    ELSE \A k \in 1..nb_kids(t) : matches(t.kids[k], pattern.kids[k])

(***************************************************************************)
(* 1.1 Parse strings into trees.  A parser method returns                  *)
(* [err, tree, idx]: err is TRUE when an assert failed (AssertionError),   *)
(* else tree is the value returned and idx the parser's s.idx afterwards   *)
(* (0-based, as in the source).                                            *)
(***************************************************************************)
AssertionError == [err |-> TRUE, tree |-> None, idx |-> 0]

Return(t, i) == [err |-> FALSE, tree |-> t, idx |-> i]

at_end(toks, idx) == ~(idx < Len(toks))

\* peek asserts not at_end: a caller of peek raises AssertionError at the end.
peek(toks, idx) == toks[idx + 1]

RECURSIVE match(_, _, _)
match(toks, idx, cc) ==
    IF cc = <<>> THEN Return(None, idx)
    ELSE IF at_end(toks, idx) THEN AssertionError
    ELSE IF peek(toks, idx) # Head(cc) THEN AssertionError
    ELSE match(toks, idx + 1, Tail(cc))

\* c = s.peek(); assert c.isalpha(); s.match(c); return Tree(':'+c, [])
atom_of(c, m) == IF m.err THEN m ELSE Return(Tree(AtomTag(c), <<>>), m.idx)

atom(toks, idx) ==
    IF at_end(toks, idx) THEN AssertionError
    ELSE IF ~isalpha(peek(toks, idx)) THEN AssertionError
    ELSE atom_of(peek(toks, idx), match(toks, idx, <<peek(toks, idx)>>))

\* return Tree(tag, [head, tail]), unless computing tail raised.
binary(tag, head, tail) ==
    IF tail.err THEN tail
    ELSE Return(Tree(tag, <<head.tree, tail.tree>>), tail.idx)

RECURSIVE expr(_, _)
RECURSIVE disj(_, _)
RECURSIVE conj(_, _)
RECURSIVE fact(_, _)

\* tail = s.expr(), reached when s.match('->') (result m) did not raise.
expr_tail(toks, m) == IF m.err THEN m ELSE expr(toks, m.idx)

expr_from(toks, head) ==
    IF head.err THEN head
    ELSE IF ~at_end(toks, head.idx) /\ peek(toks, head.idx) = "-"
    THEN binary("->", head,
                expr_tail(toks, match(toks, head.idx, <<"-", ">">>)))
    ELSE head

\* head = s.disj(); ...
expr(toks, idx) == expr_from(toks, disj(toks, idx))

disj_tail(toks, m) == IF m.err THEN m ELSE disj(toks, m.idx)

disj_from(toks, head) ==
    IF head.err THEN head
    ELSE IF ~at_end(toks, head.idx) /\ peek(toks, head.idx) = "+"
    THEN binary("+", head, disj_tail(toks, match(toks, head.idx, <<"+">>)))
    ELSE head

\* head = s.conj(); ...
disj(toks, idx) == disj_from(toks, conj(toks, idx))

conj_tail(toks, m) == IF m.err THEN m ELSE conj(toks, m.idx)

conj_from(toks, head) ==
    IF head.err THEN head
    ELSE IF ~at_end(toks, head.idx) /\ peek(toks, head.idx) = "&"
    THEN binary("&", head, conj_tail(toks, match(toks, head.idx, <<"&">>)))
    ELSE head

\* head = s.fact(); ...
conj(toks, idx) == conj_from(toks, fact(toks, idx))

\* s.match(')'); return r, for r the result of s.expr()
fact_close(toks, r) ==
    IF r.err THEN r
    ELSE IF match(toks, r.idx, <<")">>).err THEN AssertionError
    ELSE Return(r.tree, r.idx + 1)

\* When neither branch is taken the method falls off its end and returns None.
fact(toks, idx) ==
    IF at_end(toks, idx) THEN AssertionError
    ELSE IF isalpha(peek(toks, idx)) THEN atom(toks, idx)
    ELSE IF peek(toks, idx) = "("
    THEN fact_close(toks, expr_tail(toks, match(toks, idx, <<"(">>)))
    ELSE Return(None, idx)

\* LogicParser(ss).expr(): the parser's final idx is not looked at.
tree_from_str(ss) == expr(ss, 0)

(***************************************************************************)
(* 2.0 Heuristics.  Floats as exact fractions <<n, d>> with d > 0.         *)
(***************************************************************************)
RECURSIVE GCD(_, _)
GCD(a, b) == IF b = 0 THEN a ELSE GCD(b, a % b)

\* The fraction n/d in lowest terms (n >= 0, d > 0).
Frac(n, d) == LET g == GCD(n, d) IN <<n \div g, d \div g>>

FMul(x, y) == Frac(x[1] * y[1], x[2] * y[2])

FAdd(x, y) == Frac(x[1] * y[2] + y[1] * x[2], x[2] * y[2])

\* Comparison of two floats; on fractions in lowest terms equality is =.
FLess(x, y) == x[1] * y[2] < y[1] * x[2]

\* wa, wb of atom_counts, by the node's tag.
Weights(tag) ==
    CASE tag = "&"  -> <<Frac(1, 1), Frac(1, 1)>>
      [] tag = "+"  -> <<Frac(1, 2), Frac(1, 2)>>
      [] tag = "->" -> <<Frac(1, 4), Frac(3, 4)>>

\* A dict is a function on its keys.
RECURSIVE atom_counts(_)
atom_counts(t) ==
    IF is_atom(t) THEN [k \in {t.tag} |-> Frac(1, 1)]
    ELSE LET aa == atom_counts(t.kids[1])
             bb == atom_counts(t.kids[2])
             w  == Weights(t.tag)
         IN  [k \in DOMAIN aa \cup DOMAIN bb |->
                FAdd(IF k \in DOMAIN aa THEN FMul(w[1], aa[k]) ELSE Frac(0, 1),
                     IF k \in DOMAIN bb THEN FMul(w[2], bb[k]) ELSE Frac(0, 1))]

RECURSIVE FSum(_, _)
FSum(f, S) ==
    IF S = {} THEN Frac(0, 1)
    ELSE LET k == CHOOSE x \in S : TRUE IN FAdd(f[k], FSum(f, S \ {k}))

count_overlap(aa, bb) ==
    LET keys == DOMAIN aa \cup DOMAIN bb
        prod == [k \in keys |->
                   FMul(IF k \in DOMAIN aa THEN aa[k] ELSE Frac(0, 1),
                        IF k \in DOMAIN bb THEN bb[k] ELSE Frac(0, 1))]
    IN  FMul(FSum(prod, keys), Frac(1, Cardinality(keys)))

(***************************************************************************)
(* 2.1 Display helpers                                                     *)
(***************************************************************************)
\* t.display() for a Tree t: the attribute is looked up on class Tree.
TreeDisplayRaises == "display" \notin TreeMethods

\* display_judgement(tree, givens): its first operand is tree.display().
display_judgement(t, gs) ==
    IF TreeDisplayRaises
    THEN [exc |-> "AttributeError", kind |-> "", goal |-> None, hypos |-> <<>>]
    ELSE [exc |-> "", kind |-> "judgement", goal |-> t, hypos |-> gs]

(***************************************************************************)
(* 2.2 Prover proper: the steps of can_prove up to the judgement line.     *)
(***************************************************************************)
DefaultEnergy == 10

RECURSIVE KidsOf(_)
KidsOf(cs) ==
    IF cs = <<>> THEN <<>>
    ELSE <<Head(cs).kids[1], Head(cs).kids[2]>> \o KidsOf(Tail(cs))

\* 0. break open conjunctions in hypothesis
break_conjunctions(gs) ==
    LET cs   == SelectSeq(gs, LAMBDA g : g.tag = "&")
        rest == SelectSeq(gs, LAMBDA g : g.tag # "&")
    IN  rest \o KidsOf(cs)

\* The order a stable descending sort on the score alone would give.
TupleGreaterStable(s1, i1, s2, i2) == FLess(s2, s1) \/ (s1 = s2 /\ i1 < i2)

\* Python's order on the tuples (score, i): (s1, i1) > (s2, i2).
TupleGreater(s1, i1, s2, i2) == FLess(s2, s1) \/ (s1 = s2 /\ i1 > i2)

\* sorted([(count_overlap(act, atom_counts(g)), i) ...], reverse=True).  The
\* tuples are pairwise different, so the result is the one descending list.
\* Indices are 1-based here; the order of indices is the source's.
sorted_idxs(t, gs) ==
    LET n   == Len(gs)
        act == atom_counts(t)
        sc  == [i \in 1..n |-> count_overlap(act, atom_counts(gs[i]))]
        rank(i) == 1 + Cardinality({j \in 1..n :
                                     TupleGreater(sc[j], j, sc[i], i)})
    IN  [p \in 1..n |-> LET i == CHOOSE x \in 1..n : rank(x) = p
                        IN  <<sc[i], i>>]

\* givens = [givens[i] for _,i in idxs]
reorder(gs, ix) == [p \in 1..Len(ix) |-> gs[ix[p][2]]]

\* int(x) of a non-negative quotient n/d: truncation.
IntOf(n, d) == n \div d

\* en = energy-1
intro_energy(e) == e - 1

\* en = energy - (1 if len(gs)==1 else 2)
slice_energy(e, gs) == e - (IF Len(gs) = 1 THEN 1 ELSE 2)

\* gs = [g for g in givens if g.tag=='->' and g.kids[1].matches(tree)]
slice_candidates(t, gs) ==
    SelectSeq(gs, LAMBDA g : g.tag = "->" /\ matches(g.kids[2], t))

\* A split budget that rounds up instead of truncating.
split_energy_round_up(e, t, b) ==
    IF FLess(Frac(3, 4), count_overlap(atom_counts(t), atom_counts(b)))
    THEN IntOf(e * 2 + 2, 3)
    ELSE IntOf(e * 1 + 2, 3)

\* en = int(energy * 2.0/3) if count_overlap(act, acb) > 0.75
\*      else int(energy * 1.0/3)
split_energy(e, t, b) ==
    IF FLess(Frac(3, 4), count_overlap(atom_counts(t), atom_counts(b)))
    THEN IntOf(e * 2, 3)
    ELSE IntOf(e * 1, 3)

(***************************************************************************)
(* Inputs.                                                                 *)
(***************************************************************************)
T_a == <<"a">>
T_F == <<"F">>
T_a_or_b == <<"a", "+", "b">>
T_a_and_b == <<"a", "&", "b">>
T_a_to_b == <<"a", "-", ">", "b">>
T_not_a == <<"a", "-", ">", "F">>
T_not_not_a == <<"(", "a", "-", ">", "F", ")", "-", ">", "F">>
T_not_not_not_a ==
    <<"(", "(", "a", "-", ">", "F", ")", "-", ">", "F", ")", "-", ">", "F">>
T_goal1 == <<"(", "a", "+", "b", ")", "-", ">", "(", "b", "&", "c", ")">>
T_hypo1 == <<"(", "d", "&", "c", ")", "+", "(", "e", "&", "c", ")">>

\* The strings of example_problems, and two more.
FormulaTexts ==
    {T_goal1, T_hypo1, T_a_to_b, T_not_a, T_not_not_not_a, T_a, T_not_not_a,
     T_a_and_b}

\* Goals and hypotheses for the budget computations: with slice candidates
\* (goal F) and a disjunct that overlaps the goal by more than 0.75.
BudgetTexts == FormulaTexts \cup {T_F, T_a_or_b}

ParseAlphabet == {"a", "b", "(", ")", "+", "&", "-", ">"}

SeqsUpTo(S, n) == UNION {[1..k -> S] : k \in 0..n}

ParseTexts == SeqsUpTo(ParseAlphabet, MaxLen) \cup FormulaTexts

Energies == (-1..MaxEnergy) \cup {DefaultEnergy}

(***************************************************************************)
(* Spec: one pass of the main loop, with can_prove's energy an input.      *)
(* out is what display() has printed, one entry per call.                  *)
(***************************************************************************)
Init ==
    /\ pc = "main"
    /\ goalText \in FormulaTexts
    /\ hypoTexts \in SeqsUpTo(FormulaTexts, MaxHyps)
    /\ energy \in Energies
    /\ tree = None
    /\ givens = <<>>
    /\ idxs = <<>>
    /\ out = <<>>
    /\ result = ""
    /\ en = 0
    /\ text = <<>>
    /\ parsed = Return(None, 0)

\* cc = tree_from_str(conc); hhs = [tree_from_str(hh) for hh in hypos]
Main ==
    /\ pc = "main"
    /\ LET cc  == tree_from_str(goalText)
           hhs == [i \in 1..Len(hypoTexts) |-> tree_from_str(hypoTexts[i])]
       IN  IF cc.err \/ \E i \in 1..Len(hhs) : hhs[i].err
           THEN /\ result' = "AssertionError"
                /\ pc' = "done"
                /\ UNCHANGED <<tree, givens>>
           ELSE /\ tree' = cc.tree
                /\ givens' = [i \in 1..Len(hhs) |-> hhs[i].tree]
                /\ pc' = "can_prove"
                /\ UNCHANGED result
    /\ UNCHANGED <<text, parsed, goalText, hypoTexts, energy, idxs, out, en>>

\* if energy<=0: return False
EnergyCheck ==
    /\ pc = "can_prove"
    /\ IF energy <= 0
       THEN result' = "False" /\ pc' = "done"
       ELSE pc' = "flatten" /\ UNCHANGED result
    /\ UNCHANGED <<text, parsed, goalText, hypoTexts, energy, tree, givens,
                   idxs, out, en>>

BreakConjunctions ==
    /\ pc = "flatten"
    /\ givens' = break_conjunctions(givens)
    /\ pc' = "sort"
    /\ UNCHANGED <<text, parsed, goalText, hypoTexts, energy, tree, idxs, out,
                   result, en>>

Sort ==
    /\ pc = "sort"
    /\ idxs' = sorted_idxs(tree, givens)
    /\ pc' = "reorder"
    /\ UNCHANGED <<text, parsed, goalText, hypoTexts, energy, tree, givens,
                   out, result, en>>

Reorder ==
    /\ pc = "reorder"
    /\ givens' = reorder(givens, idxs)
    /\ pc' = "judgement"
    /\ UNCHANGED <<text, parsed, goalText, hypoTexts, energy, tree, idxs, out,
                   result, en>>

\* display('{}{}\n', tab, display_judgement(tree,givens)): the argument is
\* evaluated first, and its exception leaves can_prove and the main loop.
Judgement ==
    /\ pc = "judgement"
    /\ LET j == display_judgement(tree, givens) IN
       IF j.exc # ""
       THEN result' = j.exc /\ pc' = "done" /\ UNCHANGED out
       ELSE out' = Append(out, j) /\ pc' = "easies" /\ UNCHANGED result
    /\ UNCHANGED <<text, parsed, goalText, hypoTexts, energy, tree, givens,
                   idxs, en>>

Next == Main \/ EnergyCheck \/ BreakConjunctions \/ Sort \/ Reorder \/ Judgement

Spec == Init /\ [][Next]_vars

(***************************************************************************)
(* SpecParse: tree_from_str on one string.                                 *)
(***************************************************************************)
InitParse ==
    /\ pc = "tree_from_str"
    /\ text \in ParseTexts
    /\ parsed = Return(None, 0)
    /\ goalText = <<>>
    /\ hypoTexts = <<>>
    /\ energy = 0
    /\ tree = None
    /\ givens = <<>>
    /\ idxs = <<>>
    /\ out = <<>>
    /\ result = ""
    /\ en = 0

TreeFromStr ==
    /\ pc = "tree_from_str"
    /\ parsed' = tree_from_str(text)
    /\ pc' = "parsed"
    /\ UNCHANGED <<text, goalText, hypoTexts, energy, tree, givens, idxs, out,
                   result, en>>

NextParse == TreeFromStr

SpecParse == InitParse /\ [][NextParse]_vars

(***************************************************************************)
(* SpecEnergy: the budget expressions of can_prove (lines 281, 311, 327),   *)
(* applied as pure functions to a goal, its ordered hypotheses and an      *)
(* energy >= 1.  en is the source's local en.  These lines come after the  *)
(* judgement line, which raises (see Judgement), so Spec never reaches     *)
(* them; here they are evaluated on bounded inputs in their own right.     *)
(***************************************************************************)
ParsedTree(ss) == tree_from_str(ss).tree

OrderedGivens(t, hs) ==
    LET flat == break_conjunctions(hs) IN reorder(flat, sorted_idxs(t, flat))

InitEnergy ==
    /\ pc = "budget"
    /\ goalText \in BudgetTexts
    /\ hypoTexts \in SeqsUpTo(BudgetTexts, MaxHyps)
    /\ energy \in (1..MaxEnergy) \cup {DefaultEnergy}
    /\ tree = ParsedTree(goalText)
    /\ givens = OrderedGivens(ParsedTree(goalText),
                    [i \in 1..Len(hypoTexts) |-> ParsedTree(hypoTexts[i])])
    /\ idxs = <<>>
    /\ out = <<>>
    /\ result = ""
    /\ en = 0
    /\ text = <<>>
    /\ parsed = Return(None, 0)

\* newtab = tab + '|  '; en = energy-1, used by the calls of easies()
IntroBudget ==
    /\ pc = "budget"
    /\ ~is_atom(tree)
    /\ en' = intro_energy(energy)
    /\ pc' = "intro"
    /\ UNCHANGED <<text, parsed, goalText, hypoTexts, energy, tree, givens,
                   idxs, out, result>>

\* en = energy - (1 if len(gs)==1 else 2), used by the call of each slice
SliceBudget ==
    /\ pc = "budget"
    /\ slice_candidates(tree, givens) # <<>>
    /\ en' = slice_energy(energy, slice_candidates(tree, givens))
    /\ pc' = "slice"
    /\ UNCHANGED <<text, parsed, goalText, hypoTexts, energy, tree, givens,
                   idxs, out, result>>

\* for i,g in igs: for b in (lft, rht): en = int(...), used by the case's call
SplitBudget ==
    /\ pc = "budget"
    /\ \E i \in 1..Len(givens) : \E k \in 1..2 :
          /\ givens[i].tag = "+"
          /\ en' = split_energy(energy, tree, givens[i].kids[k])
    /\ pc' = "split"
    /\ UNCHANGED <<text, parsed, goalText, hypoTexts, energy, tree, givens,
                   idxs, out, result>>

NextEnergy == IntroBudget \/ SliceBudget \/ SplitBudget

SpecEnergy == InitEnergy /\ [][NextEnergy]_vars

(***************************************************************************)
(* The grammar of formula texts:                                           *)
(*   expr := disj ( "->" expr )?    disj := conj ( "+" disj )?             *)
(*   conj := fact ( "&" conj )?     fact := ATOM | "(" expr ")"            *)
(* IsExpr(s, i, j): s[i..j] is a sentence of expr.                         *)
(***************************************************************************)
RECURSIVE IsExpr(_, _, _)
RECURSIVE IsDisj(_, _, _)
RECURSIVE IsConj(_, _, _)
RECURSIVE IsFact(_, _, _)

IsFact(s, i, j) ==
    \/ i = j /\ s[i] \in Letters
    \/ j - i >= 2 /\ s[i] = "(" /\ s[j] = ")" /\ IsExpr(s, i + 1, j - 1)

IsConj(s, i, j) ==
    \/ IsFact(s, i, j)
    \/ \E k \in (i + 1)..(j - 1) :
          s[k] = "&" /\ IsFact(s, i, k - 1) /\ IsConj(s, k + 1, j)

IsDisj(s, i, j) ==
    \/ IsConj(s, i, j)
    \/ \E k \in (i + 1)..(j - 1) :
          s[k] = "+" /\ IsConj(s, i, k - 1) /\ IsDisj(s, k + 1, j)

IsExpr(s, i, j) ==
    \/ IsDisj(s, i, j)
    \/ \E k \in (i + 1)..(j - 2) :
          s[k] = "-" /\ s[k + 1] = ">" /\ IsDisj(s, i, k - 1)
                     /\ IsExpr(s, k + 2, j)

IsSentence(s) == Len(s) >= 1 /\ IsExpr(s, 1, Len(s))

(***************************************************************************)
(* Claims.                                                                 *)
(***************************************************************************)
\* C2: scenario 3 - goal "a", hypotheses ["(a->F)->F"], energy 10: the call
\* returns false.
C2_Scenario3ReturnsFalse ==
    (pc = "done" /\ goalText = T_a /\ hypoTexts = <<T_not_not_a>>
        /\ energy = DefaultEnergy) => result = "False"

\* C3: scenario 1 - goal "(a+b)->(b&c)", hypotheses ["(d&c)+(e&c)", "a->b"],
\* energy 10: the call returns true.
C3_Scenario1ReturnsTrue ==
    (pc = "done" /\ goalText = T_goal1 /\ hypoTexts = <<T_hypo1, T_a_to_b>>
        /\ energy = DefaultEnergy) => result = "True"

\* C4: scenario 2 - goal "a->F", hypotheses ["((a->F)->F)->F"], energy 10:
\* the call returns true.
C4_Scenario2ReturnsTrue ==
    (pc = "done" /\ goalText = T_not_a /\ hypoTexts = <<T_not_not_not_a>>
        /\ energy = DefaultEnergy) => result = "True"

\* C6: a call of can_prove on well-formed formulas ends by returning a
\* boolean, never in an exception.
C6_NeverRaises ==
    (pc = "done" /\ IsSentence(goalText)
        /\ \A i \in 1..Len(hypoTexts) : IsSentence(hypoTexts[i]))
    => result \in {"True", "False"}

IsOutcome(ev) == ev.kind \in {"^", "~"}

C8_RejectsMalformed ==
    (pc = "parsed" /\ ~IsSentence(text)) => parsed.err

\* C9: the energy passed to a recursive call (introduction, slice, case of
\* a split) by a call running with energy e >= 1 is strictly smaller than e.
C9_EnergyStrictlyDecreases ==
    (pc \in {"intro", "slice", "split"} /\ energy >= 1) => en < energy

\* A case of a split whose disjunct overlaps the goal by more than 0.75:
\* energy 10 gives the budget int(10 * 2.0/3) = 6.
C9_Witness ==
    /\ pc = "split" /\ energy = DefaultEnergy /\ en = 6
    /\ tree = ParsedTree(T_a)

ScoreOf(i) == count_overlap(atom_counts(tree), atom_counts(givens[i]))

IsPermutation(ix, n) ==
    Len(ix) = n /\ \A i \in 1..n : \E p \in 1..n : ix[p][2] = i

\* C10 as stated: the flattened hypotheses are ordered by descending
\* overlap score, and two hypotheses of equal score keep their original
\* relative order.
C10_StableDescending ==
    pc = "reorder" =>
        \A p, q \in 1..Len(idxs) : p < q =>
            \/ FLess(ScoreOf(idxs[q][2]), ScoreOf(idxs[p][2]))
            \/ /\ ScoreOf(idxs[p][2]) = ScoreOf(idxs[q][2])
               /\ idxs[p][2] < idxs[q][2]

\* C10 amended: the flattened hypotheses are ordered by descending overlap
\* score, and two hypotheses of equal score come in the reverse of their
\* original relative order; the list handed to the judgement display is in
\* descending score order.
C10_DescendingTiesReversed ==
    /\ pc = "reorder" =>
         /\ IsPermutation(idxs, Len(givens))
         /\ \A p, q \in 1..Len(idxs) : p < q =>
              \/ FLess(ScoreOf(idxs[q][2]), ScoreOf(idxs[p][2]))
              \/ /\ ScoreOf(idxs[p][2]) = ScoreOf(idxs[q][2])
                 /\ idxs[p][2] > idxs[q][2]
    /\ pc = "judgement" =>
         /\ Len(givens) = Len(idxs)
         /\ \A p, q \in 1..Len(givens) : p < q => ~FLess(ScoreOf(p), ScoreOf(q))

\* The sort has run on a list with two different hypotheses of equal score
\* and two of different scores.
C10_Witness ==
    /\ pc = "reorder"
    /\ \E p, q \in 1..Len(idxs) :
          /\ p < q
          /\ ScoreOf(idxs[p][2]) = ScoreOf(idxs[q][2])
          /\ givens[idxs[p][2]] # givens[idxs[q][2]]
    /\ \E p, q \in 1..Len(idxs) :
          FLess(ScoreOf(idxs[q][2]), ScoreOf(idxs[p][2]))

====
